---- MODULE Spec2Model ----
(***************************************************************************)
(* State machine of the portfolio single-page client                       *)
(* (src/frontend/src/App.js): the hooks of the App component, its          *)
(* fetchData join over five reads, the derived project view, the two       *)
(* modals with their click handlers, the section selector and the contact  *)
(* form; and of the AdminPanel component of the same file with its         *)
(* fetchData, updateSettings and deleteItem over the content store.        *)
(***************************************************************************)
EXTENDS Integers, Sequences, FiniteSets, TLC

\* ------------------------------------------------------------------ bounds
\* Largest number of projects the content store holds.
MaxProjects == 2
\* Largest number of the five reads of one fetchData that do not succeed.
MaxFailing == 1

\* ------------------------------------------------------------- JSON values
\* JavaScript null.
Null == [kind |-> "null"]
\* A JavaScript array with the elements of the sequence s.
Arr(s) == [kind |-> "array", items |-> s]
\* The empty object {} (useState({}) of settings).
EmptyObject == [kind |-> "object"]
\* The JSON object an API answers with under a non-success status.
ErrorBody == [kind |-> "object", detail |-> "error"]
\* A response body that is no JSON text: Response.json() rejects on it.
NotJson == [kind |-> "notjson"]

IsArray(v) == v.kind = "array"

\* The JavaScript number n and a JavaScript string.
Num(n) == [kind |-> "number", value |-> n]
Str(text) == [kind |-> "string", value |-> text]

\* Array(v), lines 618 and 1698: a number makes an array of that length and
\* throws a RangeError when it is negative; any other value makes the array of
\* one element [v].
ArrayThrows(v) == v.kind = "number" /\ v.value < 0

ArrayLength(v) == IF v.kind = "number" THEN v.value ELSE 1

\* The number of star glyphs [...Array(rating)].map(...) renders, lines 618-622
\* and 1698-1700: one per element of the array.
StarCount(rating) == ArrayLength(rating)

\* JavaScript truthiness of the values a selection slot can hold.
Truthy(v) == v.kind # "null"

\* --------------------------------------------------------- content store
CategoryLabels == <<"Architecture", "AI">>

CategoryOf(i) == CategoryLabels[((i - 1) % Len(CategoryLabels)) + 1]

Project(i) == [kind |-> "project", id |-> i, category |-> CategoryOf(i)]

Post(i) == [kind |-> "post", id |-> i]

Testimonial(i) == [kind |-> "testimonial", id |-> i, rating |-> Num(5)]

\* The testimonial with another rating.
Rated(t, rating) == [t EXCEPT !.rating = rating]

\* The project collections the store may hold: the first n catalogue entries.
StoreProjectChoices == {[i \in 1..n |-> Project(i)] : n \in 0..MaxProjects}

StoreBlog == <<Post(1), Post(2)>>

StoreTestimonials == <<Testimonial(1)>>

StoreSettings == [kind |-> "object", name |-> "Rabiul Hasan"]

\* The distinct values of a sequence, in order of first occurrence.
RECURSIVE Distinct(_)
Distinct(s) ==
  IF s = <<>> THEN <<>>
  ELSE LET init == Distinct(SubSeq(s, 1, Len(s) - 1))
           last == s[Len(s)]
       IN IF \E i \in 1..Len(init) : init[i] = last THEN init
          ELSE Append(init, last)

\* ------------------------------------------------------------- variables
VARIABLES
  activeSection,      \* line 8
  selectedProject,    \* line 9
  selectedBlogPost,   \* line 10
  projects,           \* line 11
  blogPosts,          \* line 12
  testimonials,       \* line 13
  settings,           \* line 14
  projectFilter,      \* line 15
  projectCategories,  \* line 16
  contactForm,        \* line 17
  isSubmitting,       \* line 18
  isMenuOpen,         \* line 20
  fetchPc,            \* position of the mount effect's fetchData
  fetchCalls,         \* number of fetchData invocations so far
  fetchResponses,     \* the five responses the join settled with
  contactRequest,     \* the POST /api/contact in flight, or Null
  alert,              \* the text of the window.alert box that is open, or ""
  storeProjects,      \* the content store's project collection
  storeBlog,          \* the content store's blog collection
  storeTestimonials,  \* the content store's testimonial collection
  storeSettings,      \* the content store's settings singleton
  activeTab,          \* AdminPanel, line 1439
  adminSettings,      \* AdminPanel settings, line 1440
  adminProjects,      \* AdminPanel projects, line 1441
  adminBlogPosts,     \* AdminPanel blogPosts, line 1442
  adminTestimonials,  \* AdminPanel testimonials, line 1443
  loading,            \* AdminPanel, line 1444
  message,            \* AdminPanel, line 1445
  formData,           \* SettingsForm, line 1529
  adminPc,            \* position of the AdminPanel's mount effect
  requests,           \* the AdminPanel's requests in flight, in issue order
  timers,             \* the delays of the pending message timers, in schedule order
  lastStep            \* the AdminPanel step taken last and its effects in order

vars == <<activeSection, selectedProject, selectedBlogPost, projects, blogPosts,
          testimonials, settings, projectFilter, projectCategories, contactForm,
          isSubmitting, isMenuOpen, fetchPc, fetchCalls, fetchResponses,
          contactRequest, alert, storeProjects, storeBlog, storeTestimonials,
          storeSettings, activeTab, adminSettings, adminProjects, adminBlogPosts,
          adminTestimonials, loading, message, formData, adminPc, requests, timers,
          lastStep>>

dataVars == <<projects, blogPosts, testimonials, settings, projectCategories>>

selectionVars == <<selectedProject, selectedBlogPost>>

contactVars == <<contactForm, isSubmitting, contactRequest, alert>>

fetchVars == <<fetchPc, fetchCalls, fetchResponses>>

\* The collections of the store other than the projects.
storeRest == <<storeBlog, storeTestimonials, storeSettings>>

\* The state of the AdminPanel component.
panelVars == <<activeTab, adminSettings, adminProjects, adminBlogPosts,
               adminTestimonials, loading, message>>

adminVars == <<panelVars, formData, adminPc, requests, timers, lastStep>>

\* The state of the App component.
appVars == <<activeSection, selectedProject, selectedBlogPost, projects, blogPosts,
             testimonials, settings, projectFilter, projectCategories, contactForm,
             isSubmitting, isMenuOpen, fetchPc, fetchCalls, fetchResponses,
             contactRequest, alert>>

\* ------------------------------------------------------------ the five reads
\* The endpoints in the order of the Promise.all of fetchData.
Endpoints == <<"projects", "blog", "testimonials", "settings", "categories">>

EndpointSet == {Endpoints[i] : i \in 1..Len(Endpoints)}

\* What the API answers to a read that succeeds.
ServerBody(ep) ==
  CASE ep = "projects" -> Arr(storeProjects)
    [] ep = "blog" -> Arr(storeBlog)
    [] ep = "testimonials" -> Arr(storeTestimonials)
    [] ep = "settings" -> storeSettings
    [] ep = "categories" ->
         Arr(Distinct([i \in 1..Len(storeProjects) |-> storeProjects[i].category]))

\* The ways one read can end: a 2xx with the data, a non-success status with a
\* JSON error object, a non-success status with a body that is no JSON, and a
\* transport failure (the promise of fetch rejects).
Outcomes == {"ok", "http_error_json", "http_error_text", "network_error"}

ResponseOf(ep, outcome) ==
  CASE outcome = "ok" -> [rejected |-> FALSE, ok |-> TRUE, body |-> ServerBody(ep)]
    [] outcome = "http_error_json" -> [rejected |-> FALSE, ok |-> FALSE, body |-> ErrorBody]
    [] outcome = "http_error_text" -> [rejected |-> FALSE, ok |-> FALSE, body |-> NotJson]
    [] outcome = "network_error" -> [rejected |-> TRUE, ok |-> FALSE, body |-> NotJson]

NoResponses == [ep \in EndpointSet |-> [rejected |-> FALSE, ok |-> FALSE, body |-> Null]]

\* The assignments of outcomes to the five reads with at most MaxFailing failures.
OutcomeChoices ==
  {o \in [EndpointSet -> Outcomes] :
     Cardinality({ep \in EndpointSet : o[ep] # "ok"}) <= MaxFailing}

\* Promise.all rejects when one of the fetch promises rejects (lines 28-34).
PromiseAllRejects(rs) == \E ep \in EndpointSet : rs[ep].rejected

\* One of the five res.json() calls rejects (lines 36-40).
JsonThrows(rs) == \E ep \in EndpointSet : rs[ep].body = NotJson

\* ['All', ...categoriesData] throws a TypeError when categoriesData is not
\* iterable (line 46).
SpreadThrows(v) == ~IsArray(v)

\* ----------------------------------------------------------- derived view
\* The filter with its predicate negated.
RECURSIVE ArrayFilterInverted(_, _)
ArrayFilterInverted(s, f) ==
  IF s = <<>> THEN <<>>
  ELSE IF Head(s).category # f THEN <<Head(s)>> \o ArrayFilterInverted(Tail(s), f)
       ELSE ArrayFilterInverted(Tail(s), f)

\* Array.prototype.filter with the predicate project.category === f.
RECURSIVE ArrayFilter(_, _)
ArrayFilter(s, f) ==
  IF s = <<>> THEN <<>>
  ELSE IF Head(s).category = f THEN <<Head(s)>> \o ArrayFilter(Tail(s), f)
       ELSE ArrayFilter(Tail(s), f)

\* projects.filter is not a function when projects is no array.
FilterThrows == projectFilter # "All" /\ ~IsArray(projects)

\* filteredProjects, lines 52-54.
ProjectView(P, f) == IF f = "All" THEN P ELSE Arr(ArrayFilter(P.items, f))

filteredProjects == IF FilterThrows THEN Null ELSE ProjectView(projects, projectFilter)

\* ------------------------------------------------------- section rendering
Sections == <<"home", "about", "portfolio", "blog", "skills", "contact">>

SectionSet == {Sections[i] : i \in 1..Len(Sections)}

\* renderSection, lines 895-912: the view of the active section.
renderSection(section) ==
  CASE section = "home" -> "HeroSection"
    [] section = "about" -> "AboutSection"
    [] section = "portfolio" -> "PortfolioSection"
    [] section = "blog" -> "BlogSection"
    [] section = "skills" -> "SkillsSection"
    [] section = "contact" -> "ContactSection"
    [] OTHER -> "HeroSection"

\* The children of <main>, lines 918-930.
HomeExtraViews ==
  <<"AboutSection", "SkillsSection", "PortfolioSection", "TestimonialsSection",
    "BlogSection", "ContactSection">>

\* The views of a render that appends the six further views whatever the section.
RenderedViewsAlways(section) == <<renderSection(section)>> \o HomeExtraViews

RenderedViews(section) ==
  <<renderSection(section)>> \o (IF section = "home" THEN HomeExtraViews ELSE <<>>)

Rendered(view) ==
  \E i \in 1..Len(RenderedViews(activeSection)) : RenderedViews(activeSection)[i] = view

\* Array(testimonial.rating) throws for a testimonial of the list.
StarsThrow(list) ==
  /\ IsArray(list)
  /\ \E i \in 1..Len(list.items) : ArrayThrows(list.items[i].rating)

\* A render of the component tree throws: .filter or .map of a value that is no
\* array (lines 54, 474, 531, 596). React then unmounts the whole tree.
RenderThrows ==
  \/ FilterThrows
  \/ ~IsArray(filteredProjects) /\ Rendered("PortfolioSection")
  \/ ~IsArray(blogPosts) /\ Rendered("BlogSection")
  \/ ~IsArray(testimonials) /\ Rendered("TestimonialsSection")
  \/ StarsThrow(testimonials) /\ Rendered("TestimonialsSection")

\* The component tree is mounted.
Mounted == ~RenderThrows

\* window.alert (lines 70 and 77) is synchronous: the page runs no script and takes
\* no event until the box is dismissed.
Blocked == alert # ""

\* The interface is on screen and takes events: the mount effect has run (React
\* flushes it before it handles an event), no render has thrown and no alert box
\* is open.
Interactive == fetchPc # "mounting" /\ Mounted /\ ~Blocked

\* ------------------------------------------------------------------ modals
\* A project overlay that is rendered only inside the portfolio view.
ProjectModalVisibleInPortfolio == Truthy(selectedProject) /\ Rendered("PortfolioSection")

\* ProjectModal, lines 762-771: the overlay is rendered when project is truthy.
ProjectModalVisible == Truthy(selectedProject)

\* BlogModal, lines 830-839.
BlogModalVisible == Truthy(selectedBlogPost)

\* The elements of a modal that a click can land on: the backdrop (lines 765-771),
\* the inner panel (772-778), the close button in the panel's header (782-787)
\* and the rest of the panel's content.
ModalElements == {"backdrop", "panel", "closeButton", "content"}

\* The elements of the inner panel, itself included.
ModalBodyElements == {"panel", "closeButton", "content"}

\* The path a click event bubbles along, from its target to the backdrop.
BubblePath(target) ==
  CASE target = "backdrop" -> <<"backdrop">>
    [] target = "panel" -> <<"panel", "backdrop">>
    [] target = "closeButton" -> <<"closeButton", "panel", "backdrop">>
    [] target = "content" -> <<"content", "panel", "backdrop">>

\* A panel without its handler.
PanelOnClickMissing == "none"

\* onClick of the inner panel, lines 777 and 845.
PanelOnClick == "stopPropagation"

\* The onClick handler of each element of a modal.
OnClick(element) ==
  CASE element = "backdrop" -> "onClose"
    [] element = "panel" -> PanelOnClick
    [] element = "closeButton" -> "onClose"
    [] element = "content" -> "none"

\* The handlers a click on target runs: those along the bubble path, up to and
\* including the first that stops the propagation.
RECURSIVE Dispatch(_)
Dispatch(path) ==
  IF path = <<>> THEN <<>>
  ELSE IF OnClick(Head(path)) = "stopPropagation" THEN <<OnClick(Head(path))>>
       ELSE <<OnClick(Head(path))>> \o Dispatch(Tail(path))

\* A click on target calls onClose.
ClickCloses(target) ==
  \E i \in 1..Len(Dispatch(BubblePath(target))) :
     Dispatch(BubblePath(target))[i] = "onClose"

\* ----------------------------------------------------------- contact form
ContactValues == {"", "a"}

ContactFields == {"name", "email", "message"}

EmptyContactForm == [name |-> "", email |-> "", message |-> ""]

ContactOutcomes == {"ok", "http_error", "network_error"}

\* ---------------------------------------------------------- AdminPanel hooks
\* No step of the AdminPanel taken yet.
NoStep == [step |-> "none", events |-> <<>>, request |-> Null]

\* The hooks of AdminPanel, lines 1439-1445, and of its SettingsForm, 1529.
AdminConstructed ==
  /\ activeTab = "settings"
  /\ adminSettings = EmptyObject
  /\ adminProjects = Arr(<<>>)
  /\ adminBlogPosts = Arr(<<>>)
  /\ adminTestimonials = Arr(<<>>)
  /\ loading = FALSE
  /\ message = ""
  /\ formData = EmptyObject
  /\ adminPc = "mounting"
  /\ requests = <<>>
  /\ timers = <<>>
  /\ lastStep = NoStep

\* ------------------------------------------------------------------- Init
AppConstructed ==
  /\ activeSection = "home"
  /\ selectedProject = Null
  /\ selectedBlogPost = Null
  /\ projects = Arr(<<>>)
  /\ blogPosts = Arr(<<>>)
  /\ testimonials = Arr(<<>>)
  /\ settings = EmptyObject
  /\ projectFilter = "All"
  /\ projectCategories = Arr(<<>>)
  /\ contactForm = EmptyContactForm
  /\ isSubmitting = FALSE
  /\ isMenuOpen = FALSE
  /\ fetchPc = "mounting"
  /\ fetchCalls = 0
  /\ fetchResponses = NoResponses
  /\ contactRequest = Null
  /\ alert = ""

Init ==
  /\ AppConstructed
  /\ storeProjects \in StoreProjectChoices
  /\ storeBlog = StoreBlog
  /\ storeTestimonials = StoreTestimonials
  /\ storeSettings = StoreSettings
  /\ AdminConstructed

\* ---------------------------------------------------------------- fetchData
\* The mount effect, lines 22-24, calls fetchData, which issues the five reads.
FetchDataStart ==
  /\ fetchPc = "mounting"
  /\ fetchPc' = "pending"
  /\ fetchCalls' = fetchCalls + 1
  /\ UNCHANGED <<activeSection, selectionVars, dataVars, projectFilter, contactVars,
                 isMenuOpen, fetchResponses, storeProjects, storeRest,
                 adminVars>>

\* The state fetchData writes once the five reads have settled with rs, lines
\* 28-49: nothing when a promise rejects or a body is no JSON; else the four
\* setters of lines 42-45, and the fifth unless the spread of line 46 throws.
FetchDataWrites(rs) ==
  IF PromiseAllRejects(rs) \/ JsonThrows(rs)
  THEN UNCHANGED dataVars
  ELSE /\ projects' = rs["projects"].body
       /\ blogPosts' = rs["blog"].body
       /\ testimonials' = rs["testimonials"].body
       /\ settings' = rs["settings"].body
       /\ projectCategories' =
            IF SpreadThrows(rs["categories"].body) THEN projectCategories
            ELSE Arr(<<"All">> \o rs["categories"].body.items)

FetchDataSettle(o) ==
  /\ fetchPc = "pending"
  /\ Mounted
  /\ ~Blocked
  /\ fetchPc' = "done"
  /\ fetchResponses' = [ep \in EndpointSet |-> ResponseOf(ep, o[ep])]
  /\ FetchDataWrites(fetchResponses')
  /\ UNCHANGED <<activeSection, selectionVars, projectFilter, contactVars,
                 isMenuOpen, fetchCalls, storeProjects, storeRest,
                 adminVars>>

\* ------------------------------------------------------- section selection
\* A navigation click that also resets the category filter.
NavClickResetsFilter(section) ==
  /\ Interactive
  /\ activeSection' = section
  /\ projectFilter' = "All"
  /\ UNCHANGED <<selectionVars, dataVars, contactVars, isMenuOpen, fetchVars,
                 storeProjects, storeRest,
                 adminVars>>

\* A navigation click that toggles: a click on the active section leads home.
NavClickToggles(section) ==
  /\ Interactive
  /\ activeSection' = IF activeSection = section THEN "home" ELSE section
  /\ UNCHANGED <<selectionVars, dataVars, projectFilter, contactVars, isMenuOpen,
                 fetchVars, storeProjects, storeRest,
                 adminVars>>

\* A section button of the desktop navigation, lines 112-126.
NavClick(section) ==
  /\ Interactive
  /\ activeSection' = section
  /\ UNCHANGED <<selectionVars, dataVars, projectFilter, contactVars, isMenuOpen,
                 fetchVars, storeProjects, storeRest,
                 adminVars>>

\* The menu button of the narrow layout, lines 137-144.
ToggleMenu ==
  /\ Interactive
  /\ isMenuOpen' = ~isMenuOpen
  /\ UNCHANGED <<activeSection, selectionVars, dataVars, projectFilter, contactVars,
                 fetchVars, storeProjects, storeRest,
                 adminVars>>

\* A section button of the open menu, lines 155-168.
MenuClick(section) ==
  /\ Interactive
  /\ isMenuOpen
  /\ activeSection' = section
  /\ isMenuOpen' = FALSE
  /\ UNCHANGED <<selectionVars, dataVars, projectFilter, contactVars, fetchVars,
                 storeProjects, storeRest,
                 adminVars>>

\* The two buttons of the hero view, lines 220-235.
HeroTargets == {"contact", "portfolio"}

HeroClick(section) ==
  /\ Interactive
  /\ Rendered("HeroSection")
  /\ section \in HeroTargets
  /\ activeSection' = section
  /\ UNCHANGED <<selectionVars, dataVars, projectFilter, contactVars, isMenuOpen,
                 fetchVars, storeProjects, storeRest,
                 adminVars>>

\* ------------------------------------------------------------ project filter
\* A category button of the portfolio view, lines 456-470.
SetProjectFilter(category) ==
  /\ Interactive
  /\ Rendered("PortfolioSection")
  /\ \E i \in 1..Len(projectCategories.items) : projectCategories.items[i] = category
  /\ projectFilter' = category
  /\ UNCHANGED <<activeSection, selectionVars, dataVars, contactVars, isMenuOpen,
                 fetchVars, storeProjects, storeRest,
                 adminVars>>

\* ------------------------------------------------------------- selections
\* A project selection that closes the blog modal: one overlay at a time.
SelectProjectExclusive(i) ==
  /\ Interactive
  /\ Rendered("PortfolioSection")
  /\ i \in 1..Len(filteredProjects.items)
  /\ selectedProject' = filteredProjects.items[i]
  /\ selectedBlogPost' = Null
  /\ UNCHANGED <<activeSection, dataVars, projectFilter, contactVars, isMenuOpen,
                 fetchVars, storeProjects, storeRest,
                 adminVars>>

\* A project card of the portfolio view, lines 474-483.
SelectProject(i) ==
  /\ Interactive
  /\ Rendered("PortfolioSection")
  /\ i \in 1..Len(filteredProjects.items)
  /\ selectedProject' = filteredProjects.items[i]
  /\ UNCHANGED <<activeSection, selectedBlogPost, dataVars, projectFilter, contactVars,
                 isMenuOpen, fetchVars, storeProjects, storeRest,
                 adminVars>>

\* A post card of the blog view, lines 531-540.
SelectBlogPost(i) ==
  /\ Interactive
  /\ Rendered("BlogSection")
  /\ i \in 1..Len(blogPosts.items)
  /\ selectedBlogPost' = blogPosts.items[i]
  /\ UNCHANGED <<activeSection, selectedProject, dataVars, projectFilter, contactVars,
                 isMenuOpen, fetchVars, storeProjects, storeRest,
                 adminVars>>

\* A click on an element of the project modal; onClose is
\* () => setSelectedProject(null), line 932.
ClickProjectModal(target) ==
  /\ Interactive
  /\ ProjectModalVisible
  /\ selectedProject' = IF ClickCloses(target) THEN Null ELSE selectedProject
  /\ UNCHANGED <<activeSection, selectedBlogPost, dataVars, projectFilter, contactVars,
                 isMenuOpen, fetchVars, storeProjects, storeRest,
                 adminVars>>

\* A click on an element of the blog modal; onClose is
\* () => setSelectedBlogPost(null), line 933.
ClickBlogModal(target) ==
  /\ Interactive
  /\ BlogModalVisible
  /\ selectedBlogPost' = IF ClickCloses(target) THEN Null ELSE selectedBlogPost
  /\ UNCHANGED <<activeSection, selectedProject, dataVars, projectFilter, contactVars,
                 isMenuOpen, fetchVars, storeProjects, storeRest,
                 adminVars>>

\* ----------------------------------------------------------- contact form
\* onChange of an input of the contact form, lines 718-744. The inputs are never
\* disabled, so they take edits while a submission is in flight.
EditContactForm(field, value) ==
  /\ Interactive
  /\ Rendered("ContactSection")
  /\ contactForm' = [contactForm EXCEPT ![field] = value]
  /\ UNCHANGED <<activeSection, selectionVars, dataVars, projectFilter, isSubmitting,
                 contactRequest, alert, isMenuOpen, fetchVars, storeProjects,
                 storeRest, adminVars>>

\* A submit button that is never disabled.
CanSubmitWhileSubmitting == \A f \in ContactFields : contactForm[f] # ""

\* The form can be submitted: the submit button is enabled (disabled={isSubmitting},
\* line 748) and the three required inputs are filled.
CanSubmit == ~isSubmitting /\ \A f \in ContactFields : contactForm[f] # ""

\* handleContactSubmit up to its await, lines 56-67.
ContactSubmit ==
  /\ Interactive
  /\ Rendered("ContactSection")
  /\ CanSubmit
  /\ isSubmitting' = TRUE
  /\ contactRequest' = [kind |-> "post", body |-> contactForm]
  /\ UNCHANGED <<activeSection, selectionVars, dataVars, projectFilter, contactForm,
                 alert, isMenuOpen, fetchVars, storeProjects, storeRest,
                 adminVars>>

\* The texts of the two alert boxes, lines 70 and 77.
SentAlert == "Message sent successfully!"
FailedAlert == "Failed to send message. Please try again."

\* An alert that reports every outcome as a success.
ContactAlertAlwaysSent(outcome) == SentAlert

\* The alert handleContactSubmit opens: response.ok opens the one of line 70, a
\* response that is not ok throws (line 73) and a rejected fetch throws, and the
\* catch opens the one of line 77.
ContactAlert(outcome) == IF outcome = "ok" THEN SentAlert ELSE FailedAlert

\* handleContactSubmit from its await to its alert, lines 69-70 and 73-77: the
\* request has settled and the box is open; the handler goes on once the box is
\* dismissed.
ContactSettle(outcome) ==
  /\ Mounted
  /\ ~Blocked
  /\ contactRequest # Null
  /\ alert' = ContactAlert(outcome)
  /\ contactRequest' = Null
  /\ UNCHANGED <<activeSection, selectionVars, dataVars, projectFilter, contactForm,
                 isSubmitting, isMenuOpen, fetchVars, storeProjects, storeRest,
                 adminVars>>

\* A handler that resets the form after every alert.
FormAfterAlertAlwaysReset == EmptyContactForm

\* The form after the alert: line 71 resets it after the box of line 70; the catch
\* block (lines 75-77) writes nothing to it.
FormAfterAlert == IF alert = SentAlert THEN EmptyContactForm ELSE contactForm

\* A handler without its finally block.
SubmittingAfterAlertKept == isSubmitting

\* isSubmitting after the alert: the finally block, lines 78-80.
SubmittingAfterAlert == FALSE

\* The alert box is dismissed and handleContactSubmit runs to its end, lines 71
\* and 78-80.
DismissAlert ==
  /\ Blocked
  /\ contactForm' = FormAfterAlert
  /\ isSubmitting' = SubmittingAfterAlert
  /\ alert' = ""
  /\ UNCHANGED <<activeSection, selectionVars, dataVars, projectFilter,
                 contactRequest, isMenuOpen, fetchVars, storeProjects, storeRest,
                 adminVars>>

\* ------------------------------------------------------------------- Next
Next ==
  \/ FetchDataStart
  \/ \E o \in OutcomeChoices : FetchDataSettle(o)
  \/ \E section \in SectionSet : NavClick(section)
  \/ ToggleMenu
  \/ \E section \in SectionSet : MenuClick(section)
  \/ \E section \in HeroTargets : HeroClick(section)
  \/ \E category \in {"All"} \cup {CategoryLabels[i] : i \in 1..Len(CategoryLabels)} :
       SetProjectFilter(category)
  \/ \E i \in 1..MaxProjects : SelectProject(i)
  \/ \E i \in 1..Len(StoreBlog) : SelectBlogPost(i)
  \/ \E target \in ModalElements : ClickProjectModal(target)
  \/ \E target \in ModalElements : ClickBlogModal(target)
  \/ \E field \in ContactFields, value \in ContactValues : EditContactForm(field, value)
  \/ ContactSubmit
  \/ \E outcome \in ContactOutcomes : ContactSettle(outcome)
  \/ DismissAlert

Spec == Init /\ [][Next]_vars

\* ============================================================== AdminPanel
\* Largest number of AdminPanel requests in flight at once.
MaxInFlight == 2
\* Largest number of message timers pending at once.
MaxTimers == 2

\* The delay of the message timers, 3000 ms, in seconds (lines 1492, 1515).
MessageClearDelay == 3

\* The endpoints in the order of the Promise.all of the AdminPanel's fetchData.
AdminEndpoints == <<"settings", "projects", "blog", "testimonials">>

AdminEndpointSet == {AdminEndpoints[i] : i \in 1..Len(AdminEndpoints)}

\* The assignments of outcomes to the four reads with at most MaxFailing failures.
AdminOutcomeChoices ==
  {o \in [AdminEndpointSet -> Outcomes] :
     Cardinality({ep \in AdminEndpointSet : o[ep] # "ok"}) <= MaxFailing}

\* Promise.all rejects when one of the fetch promises rejects (lines 1454-1459).
AdminPromiseAllRejects(rs) == \E ep \in AdminEndpointSet : rs[ep].rejected

\* One of the four res.json() calls rejects (lines 1461-1464).
AdminJsonThrows(rs) == \E ep \in AdminEndpointSet : rs[ep].body = NotJson

\* The tabs, lines 1730-1735.
Tabs == <<"settings", "projects", "blog", "testimonials">>

TabSet == {Tabs[i] : i \in 1..Len(Tabs)}

\* The item types deleteItem is called with (lines 1646, 1676, 1704).
ItemTypes == {"projects", "blog", "testimonials"}

\* The AdminPanel's list of a type.
LocalList(type) ==
  CASE type = "projects" -> adminProjects
    [] type = "blog" -> adminBlogPosts
    [] type = "testimonials" -> adminTestimonials

\* The store's collection of a type.
StoreList(type) ==
  CASE type = "projects" -> storeProjects
    [] type = "blog" -> storeBlog
    [] type = "testimonials" -> storeTestimonials

\* The ids of the entities of a sequence.
Ids(s) == {s[i].id : i \in 1..Len(s)}

\* A sequence without its element at position i.
RemoveAt(s, i) == SubSeq(s, 1, i - 1) \o SubSeq(s, i + 1, Len(s))

\* A collection without the entity of the given id.
RECURSIVE Without(_, _)
Without(s, id) ==
  IF s = <<>> THEN <<>>
  ELSE IF Head(s).id = id THEN Without(Tail(s), id)
       ELSE <<Head(s)>> \o Without(Tail(s), id)

\* The messages of lines 1472, 1490, 1498, 1514 and 1522.
ErrorLoading == "Error loading data"

SettingsUpdated == "Settings updated successfully!"

ErrorUpdating == "Error updating settings"

DeletedMessage(type) ==
  CASE type = "projects" -> "projects deleted successfully!"
    [] type = "blog" -> "blog deleted successfully!"
    [] type = "testimonials" -> "testimonials deleted successfully!"

ErrorDeleting(type) ==
  CASE type = "projects" -> "Error deleting projects"
    [] type = "blog" -> "Error deleting blog"
    [] type = "testimonials" -> "Error deleting testimonials"

\* What the four reads of the AdminPanel return from the store as it is.
StoreSnapshot ==
  [settings |-> storeSettings, projects |-> Arr(storeProjects),
   blog |-> Arr(storeBlog), testimonials |-> Arr(storeTestimonials)]

\* The requests in flight: the four reads of one fetchData as one join, a
\* PUT /api/settings with its body, a DELETE /api/{type}/{id}.  seen is the
\* store as it was when the reads were issued; overtaken marks a PUT issued
\* before one whose response has already resolved.
FetchRequestOn(snapshot) ==
  [kind |-> "fetch", type |-> "", id |-> 0, body |-> Null, overtaken |-> FALSE,
   seen |-> snapshot]

FetchRequest == FetchRequestOn(StoreSnapshot)

\* A request that creates the settings record in place of updating it.
PostSettingsRequest(body) ==
  [kind |-> "post", type |-> "", id |-> 0, body |-> body, overtaken |-> FALSE,
   seen |-> Null]

PutRequest(body) ==
  [kind |-> "put", type |-> "", id |-> 0, body |-> body, overtaken |-> FALSE,
   seen |-> Null]

DeleteRequest(type, id) ==
  [kind |-> "delete", type |-> type, id |-> id, body |-> Null, overtaken |-> FALSE,
   seen |-> Null]

InFlight(kind) == \E i \in 1..Len(requests) : requests[i].kind = kind

\* The list component of the active tab maps over its list (lines 1630, 1660,
\* 1690): a list that is no array makes the render throw, which unmounts the
\* panel.  While loading the spinner is rendered in place of the tab content
\* (lines 1784-1792).
AdminRenderThrows ==
  /\ ~loading
  /\ activeTab \in ItemTypes
  /\ \/ ~IsArray(LocalList(activeTab))
     \/ activeTab = "testimonials" /\ StarsThrow(adminTestimonials)

AdminMounted == adminPc = "mounted" /\ ~AdminRenderThrows

\* The tab content is rendered, not the spinner (lines 1784-1792).
ContentRendered == AdminMounted /\ ~loading

\* A SettingsForm that stays mounted across the renders of AdminPanel and keeps
\* the formData it was constructed with.
FormKeptAcrossRenders == formData' = formData

\* SettingsForm is a component defined inside AdminPanel (line 1528): every
\* render of AdminPanel makes a new component, whose formData starts from the
\* settings of that render (line 1529).
FormAfterRender ==
  formData' = IF panelVars' # panelVars THEN adminSettings' ELSE formData

\* A step with the calls it made in program order and the request it issued
\* or settled.
Step(name, events, request) == [step |-> name, events |-> events, request |-> request]

\* The state setters of the AdminPanel.
Setters ==
  {"setMessage", "setSettings", "setProjects", "setBlogPosts", "setTestimonials",
   "setLoading(true)", "setLoading(false)"}

\* The calls of a continuation that runs after an await, with the renders that
\* commit its state updates.  A root that batches updates renders once, when the
\* continuation has returned; a root that does not renders inside every setter
\* call.  Which root the build mounts is decided outside this file.
RECURSIVE Flushed(_, _)
Flushed(calls, batched) ==
  IF batched THEN Append(calls, "render")
  ELSE IF calls = <<>> THEN <<>>
  ELSE IF Head(calls) \in Setters
       THEN <<Head(calls), "render">> \o Flushed(Tail(calls), batched)
       ELSE <<Head(calls)>> \o Flushed(Tail(calls), batched)

\* The synchronous head of fetchData, lines 1452-1459.
FetchDataHead ==
  <<"setLoading(true)", "GET settings", "GET projects", "GET blog",
    "GET testimonials">>

\* The mount effect, lines 1447-1449, calls fetchData.
AdminMount ==
  /\ adminPc = "mounting"
  /\ adminPc' = "mounted"
  /\ loading' = TRUE
  /\ requests' = Append(requests, FetchRequest)
  /\ lastStep' = Step("mount", FetchDataHead, Null)
  /\ UNCHANGED <<activeTab, adminSettings, adminProjects, adminBlogPosts,
                 adminTestimonials, message, timers, storeProjects, storeRest,
                 appVars>>
  /\ FormAfterRender

\* An operation without its finally block.
LoadingAfterSettleKept == loading

\* loading once an operation's request has settled: the finally blocks, lines
\* 1473-1475, 1499-1501 and 1523-1525.
LoadingAfterSettle == FALSE

\* The response to a read of the fetch at position i.  The API serves a read
\* at some moment between its issue and its response: early, from the store as
\* it was when the read was issued, or late, from the store as it is now.
AdminResponseOf(i, ep, outcome, early) ==
  IF outcome = "ok" /\ early
  THEN [rejected |-> FALSE, ok |-> TRUE, body |-> requests[i].seen[ep]]
  ELSE ResponseOf(ep, outcome)

\* fetchData once its four reads have settled, lines 1461-1475.
AdminFetchSettle(i, o, early) ==
  /\ AdminMounted
  /\ i \in 1..Len(requests)
  /\ requests[i].kind = "fetch"
  /\ LET rs == [ep \in AdminEndpointSet |-> AdminResponseOf(i, ep, o[ep], early)]
     IN IF AdminPromiseAllRejects(rs) \/ AdminJsonThrows(rs)
        THEN /\ message' = ErrorLoading
             /\ UNCHANGED <<adminSettings, adminProjects, adminBlogPosts,
                            adminTestimonials>>
             /\ lastStep' = Step("fetchData failed",
                                  <<"setMessage", "setLoading(false)">>,
                                  Null)
        ELSE /\ adminSettings' = rs["settings"].body
             /\ adminProjects' = rs["projects"].body
             /\ adminBlogPosts' = rs["blog"].body
             /\ adminTestimonials' = rs["testimonials"].body
             /\ UNCHANGED message
             /\ lastStep' = Step("fetchData done",
                                  <<"setSettings", "setProjects", "setBlogPosts",
                                            "setTestimonials", "setLoading(false)">>,
                                  Null)
  /\ loading' = LoadingAfterSettle
  /\ requests' = RemoveAt(requests, i)
  /\ UNCHANGED <<activeTab, adminPc, timers, storeProjects, storeRest, appVars>>
  /\ FormAfterRender

\* A click on a tab button, line 1765.
SetActiveTab(tab) ==
  /\ AdminMounted
  /\ tab \in TabSet
  /\ activeTab' = tab
  /\ lastStep' = Step("setActiveTab", <<"setActiveTab">>, Null)
  /\ UNCHANGED <<adminSettings, adminProjects, adminBlogPosts, adminTestimonials,
                 loading, message, adminPc, requests, timers, storeProjects,
                 storeRest, appVars>>
  /\ FormAfterRender

\* The ways a PUT or a DELETE can end: a 2xx, a non-success status, a
\* transport failure.
MutationOutcomes == {"ok", "http_error", "network_error"}

\* The values typed into the name field of the settings form.
NameValues == {"R. Hasan"}

\* {...formData, name: value}, line 1544.
WithName(obj, value) ==
  [x \in DOMAIN obj \cup {"name"} |-> IF x = "name" THEN value ELSE obj[x]]

\* formData.name || '', line 1543.
NameOf(obj) == IF "name" \in DOMAIN obj THEN obj.name ELSE ""

\* PUTs and DELETEs in flight.
MutationsInFlight ==
  Cardinality({i \in 1..Len(requests) : requests[i].kind \in {"put", "delete"}})

\* Room for one more request and for the timer its success schedules.
RoomForMutation ==
  /\ Len(requests) < MaxInFlight
  /\ Len(timers) + MutationsInFlight < MaxTimers

\* Typing into the name field, lines 1541-1547.
EditSettingsForm(value) ==
  /\ ContentRendered
  /\ activeTab = "settings"
  /\ value \in NameValues
  /\ formData' = WithName(formData, value)
  /\ lastStep' = Step("setFormData", <<"setFormData">>, Null)
  /\ UNCHANGED <<panelVars, adminPc, requests, timers, storeProjects, storeRest,
                 appVars>>

\* Submitting the settings form: handleSubmit, lines 1531-1534, and the
\* synchronous head of updateSettings, lines 1479-1487.  The submit button is
\* part of the tab content and the name field is required.
SubmitSettings ==
  /\ ContentRendered
  /\ activeTab = "settings"
  /\ NameOf(formData) # ""
  /\ RoomForMutation
  /\ loading' = TRUE
  /\ requests' = Append(requests, PutRequest(formData))
  /\ lastStep' = Step("updateSettings", <<"setLoading(true)", "PUT settings">>, Null)
  /\ UNCHANGED <<activeTab, adminSettings, adminProjects, adminBlogPosts,
                 adminTestimonials, message, adminPc, timers, storeProjects,
                 storeRest, appVars>>
  /\ FormAfterRender

\* The requests left in flight when the PUT at position i has resolved.
AfterPut(i) ==
  LET marked == [j \in 1..Len(requests) |->
                   IF j < i /\ requests[j].kind = "put"
                   THEN [requests[j] EXCEPT !.overtaken = TRUE]
                   ELSE requests[j]]
  IN RemoveAt(marked, i)

\* A PUT that resolved writes its body only when no later PUT resolved first.
SettingsWrittenUnlessOvertaken(request) ==
  adminSettings' = IF request.overtaken THEN adminSettings ELSE request.body

\* The setSettings of line 1491.
SettingsWritten(request) == adminSettings' = request.body

\* No timer is scheduled.
ScheduleNothing == timers

\* setTimeout(() => setMessage(''), 3000), lines 1492 and 1515.
ScheduleClear == Append(timers, MessageClearDelay)

\* A catch block that also writes the submitted settings.
PutFailedOptimistic(request) ==
  /\ message' = ErrorUpdating
  /\ adminSettings' = request.body
  /\ UNCHANGED <<storeSettings, timers>>

\* The else branch and the catch block of updateSettings, lines 1493-1498; the
\* store keeps its settings.
PutFailed(request) ==
  /\ message' = ErrorUpdating
  /\ UNCHANGED <<storeSettings, adminSettings, timers>>

\* The branch of a successful response, lines 1489-1492; the store holds the
\* body of the PUT.
PutSucceeded(request) ==
  /\ storeSettings' = request.body
  /\ message' = SettingsUpdated
  /\ SettingsWritten(request)
  /\ timers' = ScheduleClear

\* updateSettings once its PUT has settled, lines 1489-1501.
PutSettle(i, outcome) ==
  /\ AdminMounted
  /\ i \in 1..Len(requests)
  /\ requests[i].kind = "put"
  /\ outcome \in MutationOutcomes
  /\ IF outcome = "ok"
     THEN /\ PutSucceeded(requests[i])
          /\ lastStep' = Step("updateSettings done",
                              <<"setMessage", "setSettings", "setTimeout",
                                "setLoading(false)">>,
                              requests[i])
     ELSE /\ PutFailed(requests[i])
          /\ lastStep' = Step("updateSettings failed",
                              <<"setMessage", "setLoading(false)">>, requests[i])
  /\ loading' = LoadingAfterSettle
  /\ requests' = AfterPut(i)
  /\ UNCHANGED <<activeTab, adminProjects, adminBlogPosts, adminTestimonials,
                 adminPc, storeProjects, storeBlog, storeTestimonials, appVars>>
  /\ FormAfterRender

\* A deleteItem that sets loading before it asks for confirmation.
DeleteItemDeclinedAfterLoading(type, id) ==
  /\ ContentRendered
  /\ activeTab = type
  /\ IsArray(LocalList(type))
  /\ id \in Ids(LocalList(type).items)
  /\ loading' = TRUE
  /\ lastStep' = Step("deleteItem declined", <<"setLoading(true)", "confirm">>, Null)
  /\ UNCHANGED <<activeTab, adminSettings, adminProjects, adminBlogPosts,
                 adminTestimonials, message, adminPc, requests, timers, storeProjects,
                 storeRest, appVars>>
  /\ FormAfterRender

\* A click on a Delete button of the active tab's list (lines 1646, 1676,
\* 1704) answered with Cancel in the confirmation dialog, line 1505.
DeleteItemDeclined(type, id) ==
  /\ ContentRendered
  /\ activeTab = type
  /\ IsArray(LocalList(type))
  /\ id \in Ids(LocalList(type).items)
  /\ lastStep' = Step("deleteItem declined", <<"confirm">>, Null)
  /\ UNCHANGED <<panelVars, formData, adminPc, requests, timers, storeProjects,
                 storeRest, appVars>>

\* The same click answered with OK: the synchronous head of deleteItem, lines
\* 1505-1511.
DeleteItem(type, id) ==
  /\ ContentRendered
  /\ activeTab = type
  /\ IsArray(LocalList(type))
  /\ id \in Ids(LocalList(type).items)
  /\ RoomForMutation
  /\ loading' = TRUE
  /\ requests' = Append(requests, DeleteRequest(type, id))
  /\ lastStep' = Step("deleteItem", <<"confirm", "setLoading(true)", "DELETE">>, Null)
  /\ UNCHANGED <<activeTab, adminSettings, adminProjects, adminBlogPosts,
                 adminTestimonials, message, adminPc, timers, storeProjects,
                 storeRest, appVars>>
  /\ FormAfterRender

\* A deleteItem that never calls fetchData.
AfterDeleteNoRefetch(i, outcome) == RemoveAt(requests, i)

\* The requests in flight once the DELETE at position i has settled: the
\* fetchData() of line 1516 is called inside the branch of a successful response.
AfterDelete(i, outcome) ==
  IF outcome = "ok" THEN Append(RemoveAt(requests, i), FetchRequestOn(StoreSnapshot'))
  ELSE RemoveAt(requests, i)

\* deleteItem once its DELETE has settled, lines 1513-1525.  A DELETE succeeds
\* only for an entity the store holds.  fetchData() is not awaited: it returns
\* at its first await, with loading set and the four reads issued, and the
\* finally block of deleteItem then clears loading (line 1524).
DeleteSettle(i, outcome) ==
  /\ AdminMounted
  /\ i \in 1..Len(requests)
  /\ requests[i].kind = "delete"
  /\ outcome \in MutationOutcomes
  /\ LET type == requests[i].type
         id == requests[i].id
     IN IF outcome = "ok"
        THEN /\ id \in Ids(StoreList(type))
             /\ storeProjects' =
                  IF type = "projects" THEN Without(storeProjects, id) ELSE storeProjects
             /\ storeBlog' = IF type = "blog" THEN Without(storeBlog, id) ELSE storeBlog
             /\ storeTestimonials' =
                  IF type = "testimonials" THEN Without(storeTestimonials, id)
                  ELSE storeTestimonials
             /\ message' = DeletedMessage(type)
             /\ timers' = ScheduleClear
             /\ lastStep' = Step("deleteItem done",
                                 <<"setMessage", "setTimeout">> \o FetchDataHead
                                           \o <<"setLoading(false)">>,
                                 Null)
        ELSE /\ message' = ErrorDeleting(type)
             /\ lastStep' = Step("deleteItem failed",
                                 <<"setMessage", "setLoading(false)">>,
                                 Null)
             /\ UNCHANGED <<storeProjects, storeBlog, storeTestimonials, timers>>
  /\ loading' = LoadingAfterSettle
  /\ UNCHANGED <<activeTab, adminSettings, adminProjects, adminBlogPosts,
                 adminTestimonials, adminPc, storeSettings, appVars>>
  /\ requests' = AfterDelete(i, outcome)
  /\ FormAfterRender

\* The message timer that is due first runs its callback, setMessage('') (lines
\* 1492, 1515).  All timers have the same delay, so they run in the order they
\* were scheduled in.
TimerFire ==
  /\ AdminMounted
  /\ timers # <<>>
  /\ message' = ""
  /\ timers' = Tail(timers)
  /\ lastStep' = Step("timer", <<"setMessage">>, Null)
  /\ UNCHANGED <<activeTab, adminSettings, adminProjects, adminBlogPosts,
                 adminTestimonials, loading, adminPc, requests, storeProjects,
                 storeRest, appVars>>
  /\ FormAfterRender

\* The AdminPanel is opened on a store that holds one entity, of any type.
AdminInit ==
  /\ AppConstructed
  /\ AdminConstructed
  /\ \E type \in ItemTypes :
       /\ storeProjects = IF type = "projects" THEN <<Project(1)>> ELSE <<>>
       /\ storeBlog = IF type = "blog" THEN <<Post(1)>> ELSE <<>>
       /\ storeTestimonials = IF type = "testimonials" THEN <<Testimonial(1)>> ELSE <<>>
  /\ storeSettings = StoreSettings

AdminNext ==
  \/ AdminMount
  \/ \E i \in 1..MaxInFlight, o \in AdminOutcomeChoices, early \in BOOLEAN :
       AdminFetchSettle(i, o, early)
  \/ \E tab \in TabSet : SetActiveTab(tab)
  \/ \E value \in NameValues : EditSettingsForm(value)
  \/ SubmitSettings
  \/ \E i \in 1..MaxInFlight, outcome \in MutationOutcomes :
       PutSettle(i, outcome)
  \/ \E type \in ItemTypes, id \in 1..MaxProjects : DeleteItemDeclined(type, id)
  \/ \E type \in ItemTypes, id \in 1..MaxProjects : DeleteItem(type, id)
  \/ \E i \in 1..MaxInFlight, outcome \in MutationOutcomes :
       DeleteSettle(i, outcome)
  \/ TimerFire

AdminSpec == AdminInit /\ [][AdminNext]_vars

\* ================================================================ properties
\* The elements of a JavaScript array, as a set.
ItemSet(a) == {a.items[i] : i \in 1..Len(a.items)}

\* The values of the five pieces of state before any fetch has written them.
DataUntouched ==
  /\ projects = Arr(<<>>)
  /\ blogPosts = Arr(<<>>)
  /\ testimonials = Arr(<<>>)
  /\ settings = EmptyObject
  /\ projectCategories = Arr(<<>>)

\* The five pieces of state all hold what the settled fetch returned.
DataFromFetch ==
  /\ projects = fetchResponses["projects"].body
  /\ blogPosts = fetchResponses["blog"].body
  /\ testimonials = fetchResponses["testimonials"].body
  /\ settings = fetchResponses["settings"].body
  /\ IsArray(fetchResponses["categories"].body)
  /\ projectCategories = Arr(<<"All">> \o fetchResponses["categories"].body.items)

\* One of the five reads failed: its promise rejected or its status is no success.
SomeReadFailed ==
  \E ep \in EndpointSet : fetchResponses[ep].rejected \/ ~fetchResponses[ep].ok

\* C1: once fetchData has run, projects, blogPosts, testimonials, settings and
\* projectCategories either all hold the results of that fetch or all hold their
\* pre-fetch values; no state mixes the two.
C1_AllOrNothing == fetchPc = "done" => (DataFromFetch \/ DataUntouched)

\* C2: when one of the five reads of fetchData fails (transport failure or
\* non-success status), the five pieces of state keep their prior values and
\* fetchData is not called again.
C2_FailedReadKeepsState ==
  (fetchPc = "done" /\ SomeReadFailed) => (DataUntouched /\ fetchCalls = 1)

\* The distinct categories of the projects held in the projects state.
ProjectCategorySet ==
  IF IsArray(projects) THEN {projects.items[i].category : i \in 1..Len(projects.items)}
  ELSE {}

\* C3: in every reachable state the option set projectCategories equals {"All"}
\* united with the distinct categories of the projects in the projects state.
C3_CategoryOptions == ItemSet(projectCategories) = {"All"} \cup ProjectCategorySet

\* The filter values a view is derived for: "All", the catalogue's categories and
\* a category no project has.
FilterValues == {"All", "Interior"} \cup {CategoryLabels[i] : i \in 1..Len(CategoryLabels)}

\* The positions of the projects of P whose category is f.
MatchingPositions(P, f) == {i \in 1..Len(P) : P[i].category = f}

\* C4: for the project collection P held and every filter value f, the derived
\* view is P itself when f is "All", and otherwise holds exactly the projects
\* of P whose category is f, in P's order; so the view is a subset of P.
C4_FilteredProjects ==
  IsArray(projects) =>
    \A f \in FilterValues :
      LET P == projects.items
          view == ProjectView(projects, f)
          M == MatchingPositions(P, f)
      IN /\ f = "All" => view = projects
         /\ f # "All" =>
              /\ IsArray(view)
              /\ Len(view.items) = Cardinality(M)
              /\ \A i \in M : view.items[Cardinality({j \in M : j < i}) + 1] = P[i]
         /\ ItemSet(view) \subseteq ItemSet(projects)

\* A proper, non-empty view: two projects held, the filter keeps the second.
C4_Witness ==
  /\ IsArray(projects)
  /\ Len(projects.items) = 2
  /\ projectFilter = "AI"
  /\ filteredProjects = Arr(<<Project(2)>>)

\* C5: projectFilter changes only by a click on a category button: the settling
\* of fetchData, section changes, modal clicks and the contact form's steps leave
\* it as it is.
C5_FilterChangesOnlyByClick ==
  [][projectFilter' # projectFilter => \E c \in FilterValues : SetProjectFilter(c)]_vars

\* The filter chosen in the portfolio view is still set after a section change,
\* a blog selection and a contact submission.
C5_Witness ==
  /\ projectFilter = "AI"
  /\ activeSection = "contact"
  /\ isSubmitting
  /\ Truthy(selectedBlogPost)

\* C6: the two selection slots are independent: a step that changes one of
\* selectedProject and selectedBlogPost leaves the other as it is, each slot holds
\* null or one item, and a selection puts the selected item in its slot.
C6_SlotsIndependent ==
  /\ [](/\ selectedProject \in {Null} \cup {Project(i) : i \in 1..Len(storeProjects)}
        /\ selectedBlogPost \in {Null} \cup ItemSet(Arr(StoreBlog)))
  /\ [][/\ selectedProject' # selectedProject =>
             /\ selectedBlogPost' = selectedBlogPost
             /\ \A i \in 1..Len(storeProjects) :
                  SelectProject(i) => selectedProject' = filteredProjects.items[i]
        /\ selectedBlogPost' # selectedBlogPost =>
             /\ selectedProject' = selectedProject
             /\ \A i \in 1..Len(StoreBlog) :
                  SelectBlogPost(i) => selectedBlogPost' = blogPosts.items[i]]_vars

\* Both modals are open at once, the second project having replaced the first.
C6_Witness == selectedProject = Project(2) /\ selectedBlogPost = Post(2)

\* C7: the project overlay is visible exactly when selectedProject is not null and
\* the blog overlay exactly when selectedBlogPost is not null, whatever the section,
\* the filter and the outcome of the fetch.
C7_OverlayVisibility ==
  /\ ProjectModalVisible <=> selectedProject # Null
  /\ BlogModalVisible <=> selectedBlogPost # Null

\* The project overlay is visible in a section that shows no portfolio view, with
\* a filter set and the blog overlay closed.
C7_Witness ==
  /\ ProjectModalVisible
  /\ ~BlogModalVisible
  /\ activeSection = "about"
  /\ projectFilter # "All"

\* A step that changes a selection slot and is a click on an element of a modal
\* clears that modal's slot, leaves the other slot, and is a click on one of the
\* elements of closing.
ModalClicksObey(closing) ==
  selectionVars' # selectionVars =>
  \A target \in ModalElements :
    /\ ClickProjectModal(target) =>
         /\ selectedBlogPost' = selectedBlogPost
         /\ target \in closing => selectedProject' = Null
         /\ target \notin closing => selectedProject' = selectedProject
    /\ ClickBlogModal(target) =>
         /\ selectedProject' = selectedProject
         /\ target \in closing => selectedBlogPost' = Null
         /\ target \notin closing => selectedBlogPost' = selectedBlogPost

\* C8 as stated: a click on a modal's backdrop sets that modal's slot to null and
\* leaves the other slot, and a click on any element inside the inner panel
\* clears neither slot.
C8_BodyClickNeverCloses == [][ModalClicksObey({"backdrop"})]_vars

\* C8 as amended: a click on a modal's backdrop or on the close button in its
\* panel sets that modal's slot to null and leaves the other slot; a click on the
\* panel or on its other content clears neither slot.
C8_OnlyBackdropAndCloseButtonClose == [][ModalClicksObey({"backdrop", "closeButton"})]_vars

\* Both modals are open, so that a click on either has another slot to leave alone.
C8_Witness ==
  /\ ProjectModalVisible
  /\ BlogModalVisible
  /\ fetchPc = "done"
  /\ activeSection = "skills"

\* A click on the button of section s in the navigation, the menu or the hero view.
SectionClick(s) == NavClick(s) \/ MenuClick(s) \/ HeroClick(s)

\* C9: activeSection starts as home, is always one of the six sections, and a step
\* that changes it is a click on a section button of the navigation, of the menu
\* or of the hero view, after which it equals the section clicked, whatever it
\* was before; no other step changes it.
C9_ActiveSection ==
  /\ activeSection = "home"
  /\ [](activeSection \in SectionSet)
  /\ [][activeSection' # activeSection =>
          /\ SectionClick(activeSection')
          /\ \A s \in SectionSet \ {activeSection'} : ~SectionClick(s)]_vars

\* A section other than home is active after the fetch has settled, a project has
\* been selected and a contact submission is in flight.
C9_Witness ==
  /\ activeSection = "blog"
  /\ fetchPc = "done"
  /\ Truthy(selectedProject)
  /\ isSubmitting

\* The view of each section.
ViewOf ==
  [home |-> "HeroSection", about |-> "AboutSection", portfolio |-> "PortfolioSection",
   blog |-> "BlogSection", skills |-> "SkillsSection", contact |-> "ContactSection"]

\* C10: when activeSection is home the rendered views are home, about, skills,
\* portfolio, testimonials, blog, contact in that order; for any other section
\* the rendered views are exactly the one view of that section.
C10_RenderedViews ==
  /\ activeSection = "home" =>
       RenderedViews(activeSection) =
         <<"HeroSection", "AboutSection", "SkillsSection", "PortfolioSection",
           "TestimonialsSection", "BlogSection", "ContactSection">>
  /\ activeSection # "home" =>
       RenderedViews(activeSection) = <<ViewOf[activeSection]>>

\* A section other than home is active and renders its one view.
C10_Witness ==
  /\ activeSection = "skills"
  /\ RenderedViews(activeSection) = <<"SkillsSection">>
  /\ fetchPc = "done"

\* ------------------------------------------------------- AdminPanel properties
\* C11: whenever a request of the AdminPanel is in flight (the reads of the
\* mount fetch, a settings PUT, a DELETE, the reads of the re-fetch after a
\* delete), loading is true, so the spinner is rendered in place of the tab
\* content and no further operation can be started.
C11_LoadingWhileInFlight == requests # <<>> => loading /\ ~ContentRendered

\* The four reads fetchData issues.
Gets == {"GET settings", "GET projects", "GET blog", "GET testimonials"}

\* The position of the last of the four reads in a sequence of calls, 0 if none.
LastGetAt(calls) ==
  LET at == {k \in 1..Len(calls) : calls[k] \in Gets}
  IN IF at = {} THEN 0 ELSE CHOOSE k \in at : \A j \in at : j <= k

\* The position of the render that shows the message set by the setMessage of
\* a sequence of calls, 0 if none.
MessageShownAt(calls) ==
  LET at == {k \in 1..Len(calls) :
               calls[k] = "render" /\ \E j \in 1..(k - 1) : calls[j] = "setMessage"}
  IN IF at = {} THEN 0 ELSE CHOOSE k \in at : \A j \in at : k <= j

CallSet(calls) == {calls[k] : k \in 1..Len(calls)}

\* C13: once the DELETE of a confirmed deleteItem has completed, with a 2xx, a
\* non-success status or a transport failure, the four reads are issued again.
C13_RefetchAfterEveryDelete ==
  lastStep.step \in {"deleteItem done", "deleteItem failed"} =>
    /\ Gets \subseteq CallSet(lastStep.events)
    /\ InFlight("fetch")

\* C14: a deleteItem whose confirmation is declined issues no request and
\* leaves loading, message, settings and the three lists as they were.
C14_DeclinedDeleteChangesNothing ==
  [][lastStep'.step = "deleteItem declined" =>
       /\ lastStep'.events = <<"confirm">>
       /\ UNCHANGED <<requests, loading, message, adminSettings, adminProjects,
                      adminBlogPosts, adminTestimonials>>
       /\ UNCHANGED <<storeProjects, storeRest>>]_vars

\* A delete was declined while a message was shown.
C14_Witness ==
  /\ lastStep.step = "deleteItem declined"
  /\ message # ""
  /\ requests = <<>>
  /\ ~loading

\* C15: when the PUT of updateSettings answers with a non-success status or
\* fails in transport, the step leaves the local settings as they were and
\* shows a non-empty error message.
C15_FailedUpdateKeepsSettings ==
  [][lastStep'.step = "updateSettings failed" =>
       /\ adminSettings' = adminSettings
       /\ message' = ErrorUpdating
       /\ message' # ""]_vars

\* An update with settings other than the local ones has failed.
C15_Witness ==
  /\ lastStep.step = "updateSettings failed"
  /\ lastStep.request.body # adminSettings
  /\ message = ErrorUpdating
  /\ storeSettings = StoreSettings

\* The AdminPanel with what the event loop guarantees: a timer that was
\* scheduled runs its callback.  Neither the user nor the network is under an
\* obligation.
AdminFairSpec == AdminSpec /\ WF_vars(TimerFire)

\* C16: a successful updateSettings sets the local settings to the submitted
\* ones and shows a non-empty confirmation, which a timer with the fixed delay
\* clears to the empty string without any action of the user.
C16_UpdateConfirmedThenCleared ==
  /\ [](lastStep.step = "updateSettings done" =>
          /\ adminSettings = lastStep.request.body
          /\ message = SettingsUpdated
          /\ message # ""
          /\ timers # <<>>
          /\ timers[Len(timers)] = MessageClearDelay)
  /\ [](message = SettingsUpdated => timers # <<>>)
  /\ [](lastStep.step = "timer" => message = "")
  /\ (message = SettingsUpdated) ~> (message = "" \/ ~AdminMounted)

\* The confirmation of a successful update is shown and its timer is pending.
C16_Witness ==
  /\ lastStep.step = "updateSettings done"
  /\ adminSettings = WithName(StoreSettings, "R. Hasan")
  /\ storeSettings = adminSettings
  /\ message = SettingsUpdated
  /\ timers = <<MessageClearDelay>>

\* The error messages of lines 1472, 1498 and 1522.
ErrorMessages == {ErrorLoading, ErrorUpdating} \cup {ErrorDeleting(type) : type \in ItemTypes}

\* No request is in flight and no timer is pending: nothing happens until the
\* user acts.
AtRest == adminPc = "mounted" /\ requests = <<>> /\ timers = <<>>

\* C17: every error message the AdminPanel shows is cleared to the empty string
\* without an action of the user: the panel never comes to rest showing one.
C17_ErrorMessagesTransient == AtRest => message \notin ErrorMessages

\* C18: after every admin mutation, a successful updateSettings as well as a
\* successful deleteItem, the AdminPanel issues the four reads again.
C18_RefetchAfterEveryMutation ==
  lastStep.step \in {"updateSettings done", "deleteItem done"} =>
    /\ Gets \subseteq CallSet(lastStep.events)
    /\ InFlight("fetch")

\* C18, amended: a successful deleteItem issues the four reads again, and the
\* reads are in flight when it returns; a successful updateSettings issues no
\* read and writes the submitted settings into the local state.
C18_RefetchAfterDeleteOnly ==
  /\ lastStep.step = "deleteItem done" =>
       /\ Gets \subseteq CallSet(lastStep.events)
       /\ requests # <<>>
       /\ requests[Len(requests)] = FetchRequest
  /\ lastStep.step = "updateSettings done" =>
       /\ Gets \cap CallSet(lastStep.events) = {}
       /\ "setSettings" \in CallSet(lastStep.events)
       /\ adminSettings = lastStep.request.body

\* A successful update has patched the local settings while no read is in
\* flight, after a successful delete earlier in the run.
C18_Witness ==
  /\ lastStep.step = "updateSettings done"
  /\ ~InFlight("fetch")
  /\ adminSettings = storeSettings
  /\ storeSettings # StoreSettings
  /\ storeProjects = <<>> /\ storeBlog = <<>> /\ storeTestimonials = <<>>

\* ================================================================== the site
\* The public client and the AdminPanel over one store: a visitor's page loads,
\* all five reads succeeding, and the AdminPanel is then opened and operated.
SiteInit ==
  /\ AppConstructed
  /\ activeTab = "settings"
  /\ adminSettings = EmptyObject
  /\ adminProjects = Arr(<<>>)
  /\ adminBlogPosts = Arr(<<>>)
  /\ adminTestimonials = Arr(<<>>)
  /\ loading = FALSE
  /\ message = ""
  /\ formData = EmptyObject
  /\ adminPc = "closed"
  /\ requests = <<>>
  /\ timers = <<>>
  /\ lastStep = NoStep
  /\ storeSettings = StoreSettings
  /\ \E type \in ItemTypes :
       /\ storeProjects = IF type = "projects" THEN <<Project(1)>> ELSE <<>>
       /\ storeBlog = IF type = "blog" THEN <<Post(1)>> ELSE <<>>
       /\ storeTestimonials = IF type = "testimonials" THEN <<Testimonial(1)>> ELSE <<>>

AllOk == [ep \in EndpointSet |-> "ok"]

\* The AdminPanel is rendered by its parent once the visitor's page has loaded.
OpenAdminPanel ==
  /\ fetchPc = "done"
  /\ adminPc = "closed"
  /\ adminPc' = "mounting"
  /\ UNCHANGED <<panelVars, formData, requests, timers, lastStep, storeProjects,
                 storeRest, appVars>>

SiteNext ==
  \/ FetchDataStart
  \/ FetchDataSettle(AllOk)
  \/ OpenAdminPanel
  \/ AdminNext

SiteSpec == SiteInit /\ [][SiteNext]_vars

\* Every read of the public client's fetch succeeded.
PublicFetchSucceeded ==
  fetchPc = "done" /\ \A ep \in EndpointSet : fetchResponses[ep].ok

\* The public client's cache holds the contents of the store.
PublicCacheFresh ==
  /\ projects = Arr(storeProjects)
  /\ blogPosts = Arr(storeBlog)
  /\ testimonials = Arr(storeTestimonials)
  /\ settings = storeSettings

\* C19: the public client's cache is fetched on load and refreshed after every
\* mutation of the store: once an admin update or delete has completed and
\* nothing is pending any more, the public client has fetched again and its
\* cache equals the store.
C19_PublicCacheRefreshed == AtRest /\ PublicFetchSucceeded => PublicCacheFresh

\* The settings form can be submitted: the tab content is rendered with the
\* form in it, its submit button enabled and its required field filled.
SubmitEnabled ==
  /\ ContentRendered
  /\ activeTab = "settings"
  /\ NameOf(formData) # ""

\* C20: a rapid double-submit can put two mutation requests in flight at once:
\* right after the settings form was submitted it can be submitted again.
C20_DoubleSubmitStartsSecondPut == lastStep.step = "updateSettings" => SubmitEnabled

\* C20, amended: a submit sets loading, which takes the form off the screen, so
\* it cannot be repeated before a response has resolved; when a response of an
\* earlier request has cleared loading while a PUT is in flight and a second
\* PUT was started, each successful response writes its own body into the
\* local settings when it resolves, also the response of the PUT issued first
\* that resolves last.
C20_LastResponseWins ==
  /\ lastStep.step = "updateSettings" => loading /\ ~SubmitEnabled
  /\ lastStep.step = "updateSettings done" =>
       /\ adminSettings = lastStep.request.body
       /\ storeSettings = lastStep.request.body

\* The PUT issued first resolved after the PUT issued second, and the local
\* settings hold its body.
C20_Witness ==
  /\ lastStep.step = "updateSettings done"
  /\ lastStep.request.overtaken
  /\ adminSettings = lastStep.request.body
  /\ requests = <<>>

\* ======================================================= deletes by the operator
\* The AdminPanel opened on a store that holds the whole project catalogue, and
\* an operator who only deletes; every read succeeds.
DeleteInit ==
  /\ AppConstructed
  /\ AdminConstructed
  /\ storeProjects = [i \in 1..MaxProjects |-> Project(i)]
  /\ storeBlog = <<>>
  /\ storeTestimonials = <<>>
  /\ storeSettings = StoreSettings

AllReadsOk == [ep \in AdminEndpointSet |-> "ok"]

DeleteNext ==
  \/ AdminMount
  \/ \E i \in 1..MaxInFlight, early \in BOOLEAN : AdminFetchSettle(i, AllReadsOk, early)
  \/ \E tab \in TabSet : SetActiveTab(tab)
  \/ \E type \in ItemTypes, id \in 1..MaxProjects : DeleteItemDeclined(type, id)
  \/ \E type \in ItemTypes, id \in 1..MaxProjects : DeleteItem(type, id)
  \/ \E i \in 1..MaxInFlight, outcome \in MutationOutcomes : DeleteSettle(i, outcome)
  \/ TimerFire

DeleteSpec == DeleteInit /\ [][DeleteNext]_vars

\* The lists of the AdminPanel hold the collections of the store.
ListsMatchStore ==
  /\ adminProjects = Arr(storeProjects)
  /\ adminBlogPosts = Arr(storeBlog)
  /\ adminTestimonials = Arr(storeTestimonials)

\* C21: for any sequence of confirmed deletes, once no request of the
\* AdminPanel is in flight, every re-fetch having succeeded, the local projects,
\* blogPosts and testimonials equal the collections of the store.
C21_RefetchRestoresConsistency ==
  adminPc = "mounted" /\ requests = <<>> => ListsMatchStore

\* ================================================== contact form properties
\* A response to the POST settles it: the request leaves the wire.
ContactSettled == contactRequest # Null /\ contactRequest' = Null

\* The alert box is dismissed.
AlertDismissed(text) == alert = text /\ alert' = ""

\* C22: when the contact submission returns a 2xx response, the confirmation is
\* shown, and once it is dismissed the three fields are reset to the empty string
\* and isSubmitting is false.
C22_SuccessResetsForm ==
  [][/\ ContactSettled /\ ContactSettle("ok") => alert' = SentAlert
     /\ AlertDismissed(SentAlert) =>
          /\ contactForm' = EmptyContactForm
          /\ isSubmitting' = FALSE]_vars

\* A 2xx response has arrived for a filled form and its confirmation is on screen.
C22_Witness ==
  /\ alert = SentAlert
  /\ contactRequest = Null
  /\ isSubmitting
  /\ \A f \in ContactFields : contactForm[f] = "a"

\* The three inputs are filled.
FormFilled == \A f \in ContactFields : contactForm[f] # ""

\* C23: when the contact submission fails, by a rejected fetch or a response that
\* is not 2xx, the failure notice is shown and handling the failure writes nothing
\* to the fields; once the notice is dismissed isSubmitting is false, so a form
\* that is still filled can be submitted again. The handler changes the fields
\* only after the confirmation of a success.
C23_FailureKeepsForm ==
  [][/\ ContactSettled /\ (ContactSettle("http_error") \/ ContactSettle("network_error")) =>
          /\ alert' = FailedAlert
          /\ contactForm' = contactForm
     /\ AlertDismissed(FailedAlert) =>
          /\ contactForm' = contactForm
          /\ isSubmitting' = FALSE
          /\ FormFilled => CanSubmit'
     /\ alert' # alert /\ contactForm' # contactForm => alert = SentAlert]_vars

\* A submission of a filled form has failed and its notice is on screen.
C23_Witness ==
  /\ alert = FailedAlert
  /\ contactRequest = Null
  /\ isSubmitting
  /\ FormFilled

\* ============================================== AdminPanel failure paths
\* The data the AdminPanel holds, lines 1440-1443.
AdminData == <<adminSettings, adminProjects, adminBlogPosts, adminTestimonials>>

\* The step settles a fetchData of which at least one read failed.
FetchWithFailedReadSettles ==
  \E i \in 1..MaxInFlight, o \in AdminOutcomeChoices, early \in BOOLEAN :
    /\ \E ep \in AdminEndpointSet : o[ep] # "ok"
    /\ AdminFetchSettle(i, o, early)

\* The steps that handle a failed request.
FailureSteps == {"fetchData failed", "updateSettings failed", "deleteItem failed"}

\* C24: every failure path of the AdminPanel leaves its data as it was before
\* the action: a fetchData with a failed read, a failed deleteItem and a failed
\* updateSettings change none of settings, projects, blogPosts, testimonials.
C24_FailuresKeepData ==
  [][\/ lastStep'.step \in FailureSteps
     \/ lastStep'.step = "fetchData done" /\ FetchWithFailedReadSettles
     => UNCHANGED AdminData]_vars

\* ========================================================== settings form
\* The settings form is on screen, lines 1717-1718 and 1784-1792.
FormPresented == ContentRendered /\ activeTab = "settings"

\* C25: whenever the settings form is presented, by a render of the AdminPanel,
\* its initial data equals the AdminPanel's current settings; the settings are
\* the empty record only until the first fetchData has succeeded, and never
\* again after that.
C25_FormStartsFromSettings ==
  [][/\ panelVars' # panelVars /\ FormPresented' => formData' = adminSettings'
     /\ lastStep'.step = "fetchData done" /\ requests' # requests =>
          adminSettings' # EmptyObject
     /\ adminSettings # EmptyObject => adminSettings' # EmptyObject]_vars

\* The first fetchData has succeeded and the form is presented with the
\* settings it loaded.
C25_Witness ==
  /\ FormPresented
  /\ lastStep.step = "fetchData done"
  /\ adminSettings = StoreSettings
  /\ formData = StoreSettings

\* ================================================================== writes
\* The visitor's page with its contact form and the AdminPanel over one store;
\* every read succeeds, the visitor fills the contact form and submits it, the
\* operator updates the settings and deletes items.
WriteNext ==
  \/ FetchDataStart
  \/ FetchDataSettle(AllOk)
  \/ \E field \in ContactFields : EditContactForm(field, "a")
  \/ ContactSubmit
  \/ \E outcome \in ContactOutcomes : ContactSettle(outcome)
  \/ DismissAlert
  \/ OpenAdminPanel
  \/ AdminMount
  \/ \E i \in 1..MaxInFlight : AdminFetchSettle(i, AllReadsOk, FALSE)
  \/ \E tab \in TabSet : SetActiveTab(tab)
  \/ \E value \in NameValues : EditSettingsForm(value)
  \/ SubmitSettings
  \/ \E i \in 1..MaxInFlight, outcome \in MutationOutcomes : PutSettle(i, outcome)
  \/ \E type \in ItemTypes, id \in 1..MaxProjects : DeleteItem(type, id)
  \/ \E i \in 1..MaxInFlight, outcome \in MutationOutcomes : DeleteSettle(i, outcome)
  \/ TimerFire

WriteSpec == SiteInit /\ [][WriteNext]_vars

\* The HTTP method of a request: the reads carry no method option (lines 29-33
\* and 1455-1458), the others name theirs (lines 62, 1482, 1510).
Method(r) ==
  CASE r.kind = "fetch" -> "GET"
    [] r.kind = "post" -> "POST"
    [] r.kind = "put" -> "PUT"
    [] r.kind = "delete" -> "DELETE"

\* The requests in flight that are no reads: those of the AdminPanel and the one
\* of the public client.
AdminWrites == {requests[i] : i \in {j \in 1..Len(requests) : Method(requests[j]) # "GET"}}

PublicWrites == IF contactRequest = Null THEN {} ELSE {contactRequest}

\* The ids held by the store's collection of a type.
StoreIds(type) == Ids(StoreList(type))

\* C26: the only mutating requests are POST /api/contact from the public client
\* and PUT /api/settings and DELETE /api/{kind}/{id}, kind one of projects, blog,
\* testimonials, from the AdminPanel. No step of the public client changes the
\* store; the settings record changes only by a successful update and stays a
\* record; no collection ever gains an item, and one loses an item only by a
\* successful delete.
C26_OnlyThreeWrites ==
  [][/\ \A r \in PublicWrites' : Method(r) = "POST"
     /\ \A r \in AdminWrites' :
          \/ Method(r) = "PUT"
          \/ Method(r) = "DELETE" /\ r.type \in {"projects", "blog", "testimonials"}
     /\ appVars' # appVars => UNCHANGED <<storeProjects, storeRest>>
     /\ storeSettings' # storeSettings =>
          /\ lastStep'.step = "updateSettings done"
          /\ storeSettings'.kind = "object"
     /\ \A type \in ItemTypes :
          /\ StoreIds(type)' \subseteq StoreIds(type)
          /\ StoreList(type)' # StoreList(type) => lastStep'.step = "deleteItem done"]_vars

\* The visitor's POST is in flight while the operator has changed the settings
\* and deleted the store's only item.
C26_Witness ==
  /\ contactRequest # Null
  /\ storeSettings # StoreSettings
  /\ storeProjects = <<>> /\ storeBlog = <<>> /\ storeTestimonials = <<>>
  /\ AdminWrites # {}

\* ================================================================== ratings
\* Largest rating a stored testimonial carries.
MaxRating == 6

\* The ratings the API may send: numbers from -1 on, a number sent as a string,
\* and no rating at all.
RatingValues == {Num(n) : n \in (-1)..MaxRating} \cup {Str("5"), Null}

\* A store with one testimonial of any rating; the visitor's page loads and is
\* browsed, the AdminPanel loads and its tabs are visited; every read succeeds.
RatingInit ==
  /\ AppConstructed
  /\ AdminConstructed
  /\ storeProjects = <<>>
  /\ storeBlog = <<>>
  /\ storeTestimonials \in {<<Rated(Testimonial(1), r)>> : r \in RatingValues}
  /\ storeSettings = StoreSettings

RatingNext ==
  \/ FetchDataStart
  \/ FetchDataSettle(AllOk)
  \/ \E section \in SectionSet : NavClick(section)
  \/ AdminMount
  \/ \E i \in 1..MaxInFlight, early \in BOOLEAN : AdminFetchSettle(i, AllReadsOk, early)
  \/ \E tab \in TabSet : SetActiveTab(tab)

RatingSpec == RatingInit /\ [][RatingNext]_vars

\* A rating the data model allows: an integer from 0 to 5.
RatingInRange(rating) == rating.kind = "number" /\ rating.value \in 0..5

\* The stars of a list of testimonials are sound: no Array call throws, every
\* testimonial gets 0 to 5 stars, and as many as its rating when that is in range.
StarsSound(list) ==
  \A i \in 1..Len(list.items) :
    LET rating == list.items[i].rating
    IN /\ ~ArrayThrows(rating)
       /\ StarCount(rating) \in 0..5
       /\ RatingInRange(rating) => StarCount(rating) = rating.value

\* C27: the rating is validated before it drives the stars: for every testimonial
\* the public TestimonialsSection or the AdminPanel's TestimonialsList renders,
\* the number of star glyphs is an integer from 0 to 5, equal to the rating when
\* the rating is in range, and no rating makes the render fail.
C27_StarsWithinRange ==
  /\ IsArray(testimonials) /\ Rendered("TestimonialsSection") => StarsSound(testimonials)
  /\ adminPc = "mounted" /\ ~loading /\ activeTab = "testimonials" /\ IsArray(adminTestimonials)
       => StarsSound(adminTestimonials)

\* ====================================================== contact submission
\* C28 as stated: isSubmitting is true exactly while a contact POST is in flight.
C28_SubmittingWhileInFlight == isSubmitting <=> contactRequest # Null

\* C28: isSubmitting is true from the submit until handleContactSubmit has
\* finished: while the POST is in flight and, after it has settled, while the
\* alert that reports its outcome is open. A submit can start only when no POST
\* is in flight and no alert is open, so at most one POST is in flight, and
\* isSubmitting is false again once the alert is dismissed.
C28_SubmittingUntilHandled ==
  /\ isSubmitting <=> (contactRequest # Null \/ Blocked)
  /\ contactRequest # Null => ~Blocked
  /\ ENABLED ContactSubmit => contactRequest = Null /\ ~Blocked

\* A POST is in flight while the filled form is on screen and interactive: only
\* the disabled button keeps a second submit from starting.
C28_Witness ==
  /\ isSubmitting
  /\ contactRequest # Null
  /\ Interactive
  /\ Rendered("ContactSection")
  /\ FormFilled

\* ========================================================== message timers
\* The timer that runs is the one scheduled by the operation that set the message
\* on screen: that operation succeeded, and its timer is the last one scheduled,
\* so no other timer is pending in front of it.
TimerOwnsMessage == message \notin ErrorMessages /\ Len(timers) = 1

\* C29: a message is cleared only by the timer of the operation that set it: the
\* timer of an earlier success never clears a message a later operation has set.
C29_TimerClearsOwnMessage ==
  [][lastStep'.step = "timer" /\ timers' = Tail(timers) /\ message # ""
       => TimerOwnsMessage]_vars

\* ============================================================= termination
\* C30: every operation of the AdminPanel ends with loading false, whatever the
\* outcome of its request: whenever no request is in flight, loading is false.
C30_LoadingClearedAtRest == requests = <<>> => ~loading

\* An operation has ended through its failure path: the last request in flight
\* has failed and loading is false.
C30_Witness ==
  /\ lastStep.step \in FailureSteps
  /\ requests = <<>>
  /\ ~loading

====
